---- MODULE Spec2Model ----
(***************************************************************************)
(* Model of qml/kernels/kernels.py: the four Python wrappers around the    *)
(* compiled kernel routines of the fkernels extension module.              *)
(*                                                                         *)
(*   laplacian_kernel(A, B, sigma)                                         *)
(*   gaussian_kernel(A, B, sigma)                                          *)
(*   get_atomic_kernels_laplacian(x1, x2, N1, N2, sigmas)                  *)
(*   get_atomic_kernels_gaussian(mols1, mols2, sigmas)                     *)
(*                                                                         *)
(* The module keeps no state between calls, so a behaviour is one call:    *)
(* Init is the state before the call and each action is one whole call,    *)
(* from its arguments to its return value or the exception it raises.      *)
(* Arrays are records [shape, data]; indices are 1-based here and 0-based  *)
(* in the source, so shape[1] below is numpy's shape[0].                   *)
(***************************************************************************)
EXTENDS Integers, Sequences, FiniteSets, TLC

VARIABLES pc, op, args, err, stage, returned, result, calls, padded1, padded2

vars == <<pc, op, args, err, stage, returned, result, calls, padded1, padded2>>

(***************************************************************************)
(* Bounds of the model.                                                    *)
(***************************************************************************)
\* most molecules in one batch
MaxMols == 2
\* most atoms in one molecule
MaxAtoms == 1
\* widest per-atom descriptor
MaxWidth == 2
\* longest sigma list
MaxSigmas == 2
\* most molecules of both batches plus sigmas in one atomic call
MaxInput == 4
\* most descriptor vectors in a dense collection
MaxVecs == 2
\* longest descriptor vector of a dense collection
MaxDim == 2

\* the bandwidths a caller passes: negative, zero and two positive ones
SigmaVals == {-1, 0, 1, 2}

Min(a, b) == IF a < b THEN a ELSE b

(***************************************************************************)
(* numpy arrays.                                                           *)
(***************************************************************************)
Indices2(shape) == (1..shape[1]) \X (1..shape[2])

Indices3(shape) == (1..shape[1]) \X (1..shape[2]) \X (1..shape[3])

\* np.zeros(shape) for a 3-dimensional shape
Zeros(shape) == [shape |-> shape, data |-> [i \in Indices3(shape) |-> 0]]

\* the placeholder of a local array the call has not (yet) created
NoArray == [shape |-> <<>>, data |-> <<>>]

\* conversion of one element by np.array(..., dtype=np.int32): an atom count
\* within the 32-bit range keeps its value (every integer of the model is
\* within that range: the model checker's integers are 32 bits wide)
Int32(v) == v

\* conversion of one element by np.array(..., dtype=np.float64): an integer
\* of magnitude below 2^53 keeps its value (the sigmas of the model are such)
Float64(v) == v

\* np.array(list, dtype=np.int32): same length, same order
NpArrayInt32(list) == [i \in 1..Len(list) |-> Int32(list[i])]

NpArrayFloat64Rev(list) == [i \in 1..Len(list) |-> Float64(list[Len(list) + 1 - i])]

\* np.array(sigmas, dtype=np.float64): same length, same order
NpArrayFloat64(list) == [i \in 1..Len(list) |-> Float64(list[i])]

\* the largest element of a non-empty 1-dimensional array
RECURSIVE Amax(_)
Amax(n) ==
    IF Len(n) = 1 THEN n[1]
    ELSE LET rest == Amax(Tail(n)) IN IF n[1] > rest THEN n[1] ELSE rest

NpAmaxInitialZero(n) ==
    IF Len(n) = 0 THEN [err |-> "none", v |-> 0] ELSE [err |-> "none", v |-> Amax(n)]

\* np.amax(n): ValueError on a zero-size array, else the largest element
NpAmax(n) ==
    IF Len(n) = 0 THEN [err |-> "ValueError", v |-> 0] ELSE [err |-> "none", v |-> Amax(n)]

\* the extent of the slice :n along an axis of length dim
SliceLenZeroIsAll(n, dim) == IF n = 0 THEN dim ELSE Min(n, dim)

SliceLen(n, dim) == IF n < dim THEN n ELSE dim

\* shape of the target x[imol, :n, :cmat_size]
TargetShape(x, n, cmat_size) ==
    <<SliceLen(n, x.shape[2]), SliceLen(cmat_size, x.shape[3])>>

\* numpy's rule for assigning a 2-dimensional value to a 2-dimensional
\* target: each axis of the value has the target's length or length 1
CanBroadcast(vshape, tshape) ==
    /\ (vshape[1] = tshape[1] \/ vshape[1] = 1)
    /\ (vshape[2] = tshape[2] \/ vshape[2] = 1)

\* x[imol, :n, :cmat_size] = value, for a value that can be broadcast
SetSlice(x, imol, n, cmat_size, value) ==
    LET t == TargetShape(x, n, cmat_size) IN
    [shape |-> x.shape,
     data  |-> [i \in Indices3(x.shape) |->
                  IF i[1] = imol /\ i[2] <= t[1] /\ i[3] <= t[2]
                  THEN value.data[<<IF value.shape[1] = 1 THEN 1 ELSE i[2],
                                    IF value.shape[2] = 1 THEN 1 ELSE i[3]>>]
                  ELSE x.data[i]]]

\* the loop "for imol in range(nm): x[imol,:n[imol],:cmat_size] = ..." from
\* molecule imol on: the buffer when the loop ends, or the buffer as it is
\* when an assignment raises ValueError
RECURSIVE PadLoop(_, _, _, _, _)
PadLoop(x, mols, n, cmat_size, imol) ==
    IF imol > Len(mols) THEN [err |-> "none", x |-> x]
    ELSE LET value == mols[imol].local_coulomb_matrix IN
         IF ~CanBroadcast(value.shape, TargetShape(x, n[imol], cmat_size))
         THEN [err |-> "ValueError", x |-> x]
         ELSE PadLoop(SetSlice(x, imol, n[imol], cmat_size, value),
                      mols, n, cmat_size, imol + 1)

Swapaxes01(x) ==
    LET s == <<x.shape[2], x.shape[1], x.shape[3]>> IN
    [shape |-> s, data |-> [i \in Indices3(s) |-> x.data[<<i[2], i[1], i[3]>>]]]

\* np.swapaxes(x, 0, 2)
Swapaxes02(x) ==
    LET s == <<x.shape[3], x.shape[2], x.shape[1]>> IN
    [shape |-> s, data |-> [i \in Indices3(s) |-> x.data[<<i[3], i[2], i[1]>>]]]

(***************************************************************************)
(* The compiled routines of fkernels.  Their source is not part of the     *)
(* wrapper module; they are modelled by what the wrappers rely on: the     *)
(* batched routines return one output per sigma, in the order of the sigma *)
(* array they are given, and the dense routines fill the matrix K they are *)
(* handed.  A compiled routine has no exception of its own to raise.       *)
(***************************************************************************)
FGetVectorKernels(routine, sigmas, nm1, nm2, nsigmas) ==
    [k \in 1..nsigmas |->
        [routine |-> routine, nm1 |-> nm1, nm2 |-> nm2,
         sigma |-> IF k <= Len(sigmas) THEN sigmas[k] ELSE 0]]

FKernelFill(routine, K, sigma) ==
    [shape |-> K.shape, filled |-> routine, sigma |-> sigma]

(***************************************************************************)
(* Inputs.                                                                 *)
(***************************************************************************)
\* a descriptor entry: distinct and non-zero for every (array, row, column)
Desc(tag, a, c) == tag + 10 * a + c

\* a molecule with natoms atoms and descriptors of width w: its
\* local_coulomb_matrix has one row per atom
Molecule(tag, natoms, w) ==
    [natoms |-> natoms,
     local_coulomb_matrix |->
        [shape |-> <<natoms, w>>,
         data  |-> [i \in Indices2(<<natoms, w>>) |-> Desc(tag, i[1], i[2])]]]

MolShapes == (0..MaxAtoms) \X (1..MaxWidth)

\* batch b (1 or 2) of molecules of the given shapes
Batch(b, shapes) ==
    [i \in 1..Len(shapes) |-> Molecule(1000 * b + 100 * i, shapes[i][1], shapes[i][2])]

(***************************************************************************)
(* The state before a call.                                                *)
(***************************************************************************)
Init ==
    /\ pc = "ready"
    /\ op = "none"
    /\ args = <<>>
    /\ err = "none"
    /\ stage = "none"
    /\ returned = FALSE
    /\ result = <<>>
    /\ calls = <<>>
    /\ padded1 = NoArray
    /\ padded2 = NoArray

\* the call ends with an exception: nothing is returned
Raise(name, exc, at, a, x1, x2) ==
    /\ pc' = "done"
    /\ op' = name
    /\ args' = a
    /\ err' = exc
    /\ stage' = at
    /\ returned' = FALSE
    /\ result' = <<>>
    /\ calls' = <<>>
    /\ padded1' = x1
    /\ padded2' = x2

\* the call invokes a compiled routine once, with the arguments call, and
\* returns what the routine returned
Return(name, a, call, ret, x1, x2) ==
    /\ pc' = "done"
    /\ op' = name
    /\ args' = a
    /\ err' = "none"
    /\ stage' = "return"
    /\ returned' = TRUE
    /\ result' = ret
    /\ calls' = <<[args |-> call, ret |-> ret]>>
    /\ padded1' = x1
    /\ padded2' = x2

(***************************************************************************)
(* get_atomic_kernels_gaussian(mols1, mols2, sigmas)                       *)
(***************************************************************************)
GetAtomicKernelsGaussian(mols1, mols2, sigmas) ==
    LET name == "get_atomic_kernels_gaussian"
        a    == [mols1 |-> mols1, mols2 |-> mols2, sigmas |-> sigmas]
        n1   == NpArrayInt32([i \in 1..Len(mols1) |-> mols1[i].natoms])
        n2   == NpArrayInt32([i \in 1..Len(mols2) |-> mols2[i].natoms])
        m1   == NpAmax(n1)
        m2   == NpAmax(n2)
    IN
    /\ pc = "ready"
    /\ IF m1.err # "none" THEN Raise(name, m1.err, "amax", a, NoArray, NoArray)
       ELSE IF m2.err # "none" THEN Raise(name, m2.err, "amax", a, NoArray, NoArray)
       ELSE IF Len(mols1) = 0
       THEN Raise(name, "IndexError", "cmat_size", a, NoArray, NoArray)
       ELSE
       LET amax1 == m1.v
           amax2 == m2.v
           nm1 == Len(mols1)
           nm2 == Len(mols2)
           cmat_size == mols1[1].local_coulomb_matrix.shape[2]
           z1 == Zeros(<<nm1, amax1, cmat_size>>)
           z2 == Zeros(<<nm2, amax2, cmat_size>>)
       IN
       \* (a singleton \E names a value that is computed once)
       \E p1 \in {PadLoop(z1, mols1, n1, cmat_size, 1)},
          p2 \in {PadLoop(z2, mols2, n2, cmat_size, 1)} :
       IF p1.err # "none" THEN Raise(name, p1.err, "pad1", a, p1.x, z2)
       ELSE IF p2.err # "none" THEN Raise(name, p2.err, "pad2", a, p1.x, p2.x)
       ELSE
       LET x1 == Swapaxes02(p1.x)
           x2 == Swapaxes02(p2.x)
           nsigmas == Len(sigmas)
           sig == NpArrayFloat64(sigmas)
           routine == "fget_vector_kernels_gaussian"
           call == [routine |-> routine, x1 |-> x1, x2 |-> x2, n1 |-> n1,
                    n2 |-> n2, sigmas |-> sig, nm1 |-> nm1, nm2 |-> nm2,
                    nsigmas |-> nsigmas]
       IN Return(name, a, call,
                 FGetVectorKernels(routine, sig, nm1, nm2, nsigmas), p1.x, p2.x)

CallGaussianAtomic ==
    /\ pc = "ready"
    /\ \E k1 \in 0..MaxMols, k2 \in 0..MaxMols :
       \E ks \in 0..Min(MaxSigmas, MaxInput - k1 - k2) :
       \E s1 \in [1..k1 -> MolShapes], s2 \in [1..k2 -> MolShapes],
          sigmas \in [1..ks -> SigmaVals] :
            GetAtomicKernelsGaussian(Batch(1, s1), Batch(2, s2), sigmas)

(***************************************************************************)
(* get_atomic_kernels_laplacian(x1, x2, N1, N2, sigmas)                    *)
(***************************************************************************)
GetAtomicKernelsLaplacianChecked(x1, x2, N1, N2, sigmas) ==
    LET name == "get_atomic_kernels_laplacian"
        a    == [x1 |-> x1, x2 |-> x2, N1 |-> N1, N2 |-> N2, sigmas |-> sigmas]
        nm1  == Len(N1)
        nm2  == Len(N2)
        n1   == NpArrayInt32(N1)
        n2   == NpArrayInt32(N2)
        nsigmas == Len(sigmas)
        sig  == NpArrayFloat64(sigmas)
        routine == "fget_vector_kernels_laplacian"
        call == [routine |-> routine, x1 |-> x1, x2 |-> x2, n1 |-> n1,
                 n2 |-> n2, sigmas |-> sig, nm1 |-> nm1, nm2 |-> nm2,
                 nsigmas |-> nsigmas]
    IN
    /\ pc = "ready"
    /\ IF \/ \E i \in 1..nm1 : N1[i] > x1.shape[2]
          \/ \E i \in 1..nm2 : N2[i] > x2.shape[2]
       THEN Raise(name, "ValueError", "check", a, NoArray, NoArray)
       ELSE Return(name, a, call,
                   FGetVectorKernels(routine, sig, nm1, nm2, nsigmas),
                   NoArray, NoArray)

GetAtomicKernelsLaplacian(x1, x2, N1, N2, sigmas) ==
    LET name == "get_atomic_kernels_laplacian"
        a    == [x1 |-> x1, x2 |-> x2, N1 |-> N1, N2 |-> N2, sigmas |-> sigmas]
        nm1  == Len(N1)
        nm2  == Len(N2)
        n1   == NpArrayInt32(N1)
        n2   == NpArrayInt32(N2)
        nsigmas == Len(sigmas)
        sig  == NpArrayFloat64(sigmas)
        routine == "fget_vector_kernels_laplacian"
        call == [routine |-> routine, x1 |-> x1, x2 |-> x2, n1 |-> n1,
                 n2 |-> n2, sigmas |-> sig, nm1 |-> nm1, nm2 |-> nm2,
                 nsigmas |-> nsigmas]
    IN
    /\ pc = "ready"
    /\ Return(name, a, call,
              FGetVectorKernels(routine, sig, nm1, nm2, nsigmas),
              NoArray, NoArray)

\* a buffer as a caller of get_atomic_kernels_laplacian supplies it: one
\* descriptor component, cap atom slots, one molecule per entry of N; the
\* slots below a molecule's atom count hold its descriptors, the others hold
\* whatever the caller left there (fill)
CallerBuffer(b, N, cap, fill) ==
    [shape |-> <<1, cap, Len(N)>>,
     data  |-> [i \in Indices3(<<1, cap, Len(N)>>) |->
                  IF i[2] <= N[i[3]] THEN Desc(1000 * b + 100 * i[3], i[2], i[1])
                  ELSE fill]]

\* what a caller may have left in the unused slots
Fills == {0, 9}

CallLaplacianAtomic ==
    /\ pc = "ready"
    /\ \E k1 \in 0..MaxMols, k2 \in 0..MaxMols :
       \E ks \in 0..Min(MaxSigmas, MaxInput - k1 - k2) :
       \E N1 \in [1..k1 -> 0..MaxAtoms], N2 \in [1..k2 -> 0..MaxAtoms],
          cap1 \in 0..MaxAtoms, cap2 \in 0..MaxAtoms, fill \in Fills,
          sigmas \in [1..ks -> SigmaVals] :
            GetAtomicKernelsLaplacian(CallerBuffer(1, N1, cap1, fill),
                                      CallerBuffer(2, N2, cap2, fill),
                                      N1, N2, sigmas)

(***************************************************************************)
(* laplacian_kernel(A, B, sigma) and gaussian_kernel(A, B, sigma)          *)
(***************************************************************************)
\* np.empty((na, nb), order='F'): the shape is set, the entries are not
Empty(na, nb) == [shape |-> <<na, nb>>]

\* the two functions differ in the routine they call and in nothing else
DenseKernel(name, routine, A, B, sigma) ==
    LET a == [A |-> A, B |-> B, sigma |-> sigma] IN
    /\ pc = "ready"
    /\ IF Len(A.shape) < 2 \/ Len(B.shape) < 2
       THEN Raise(name, "IndexError", "shape", a, NoArray, NoArray)
       ELSE
       LET na == A.shape[2]
           nb == B.shape[2]
           K  == Empty(na, nb)
           call == [routine |-> routine, A |-> A, na |-> na, B |-> B,
                    nb |-> nb, K |-> K, sigma |-> sigma]
       IN Return(name, a, call, FKernelFill(routine, K, sigma), NoArray, NoArray)

LaplacianKernel(A, B, sigma) ==
    DenseKernel("laplacian_kernel", "flaplacian_kernel", A, B, sigma)

GaussianKernel(A, B, sigma) ==
    DenseKernel("gaussian_kernel", "fgaussian_kernel", A, B, sigma)

\* a descriptor collection as the docstrings describe it, an "np.array of
\* np.array of descriptors": n descriptor vectors of length d, A[i] being the
\* i-th vector
Collection(tag, n, d) ==
    [shape |-> <<n, d>>,
     data  |-> [i \in Indices2(<<n, d>>) |-> Desc(tag, i[1], i[2])]]

\* np.array([]): a collection without vectors, built from an empty list
EmptyList == [shape |-> <<0>>, data |-> <<>>]

Collections(tag) ==
    {Collection(tag, n, d) : n \in 0..MaxVecs, d \in 1..MaxDim} \cup {EmptyList}

CallLaplacianKernel ==
    /\ pc = "ready"
    /\ \E A \in Collections(100), B \in Collections(200), sigma \in SigmaVals :
         LaplacianKernel(A, B, sigma)

CallGaussianKernel ==
    /\ pc = "ready"
    /\ \E A \in Collections(100), B \in Collections(200), sigma \in SigmaVals :
         GaussianKernel(A, B, sigma)

Next ==
    \/ CallLaplacianKernel
    \/ CallGaussianKernel
    \/ CallLaplacianAtomic
    \/ CallGaussianAtomic

Spec == Init /\ [][Next]_vars

(***************************************************************************)
(* Properties.                                                             *)
(***************************************************************************)
IsDense == op \in {"laplacian_kernel", "gaussian_kernel"}

IsLaplacianAtomic == op = "get_atomic_kernels_laplacian"

IsGaussianAtomic == op = "get_atomic_kernels_gaussian"

\* the call raised an exception, invoked no routine and returned nothing
Rejected == err # "none" /\ ~returned /\ calls = <<>>

\* the call invoked one routine and returned
Completed == err = "none" /\ returned /\ Len(calls) = 1

Width(mol) == mol.local_coulomb_matrix.shape[2]

AllMols == args.mols1 \o args.mols2

\* two molecules of the two batches differ in descriptor width
WidthMismatch == \E i, j \in 1..Len(AllMols) : Width(AllMols[i]) # Width(AllMols[j])

EmptyBatch == Len(args.mols1) = 0 \/ Len(args.mols2) = 0

\* molecule m's slice of the padded buffer x holds the molecule's descriptor
\* rows in the slots below its atom count and zeros in the slots above
SliceHolds(x, mols, m) ==
    \A a \in 1..x.shape[2], c \in 1..x.shape[3] :
        IF a <= mols[m].natoms
        THEN /\ <<a, c>> \in DOMAIN mols[m].local_coulomb_matrix.data
             /\ x.data[<<m, a, c>>] = mols[m].local_coulomb_matrix.data[<<a, c>>]
        ELSE x.data[<<m, a, c>>] = 0

BufferHolds(x, mols) ==
    /\ x.shape[1] = Len(mols)
    /\ \A m \in 1..Len(mols) : mols[m].natoms <= x.shape[2]
    /\ \E m \in 1..Len(mols) : mols[m].natoms = x.shape[2]
    /\ \A m \in 1..Len(mols) : SliceHolds(x, mols, m)

\* C1: in get_atomic_kernels_gaussian, once both padding loops have run, each
\* padded buffer holds, for every molecule m, atom slot a and component c,
\* row a, component c of molecule m's local descriptor array where a is below
\* the molecule's atom count, and 0 in the slots from the atom count up to
\* the largest atom count of the batch.
C1_PaddedBufferHoldsDescriptors ==
    (IsGaussianAtomic /\ stage = "return") =>
        /\ BufferHolds(padded1, args.mols1)
        /\ BufferHolds(padded2, args.mols2)

\* C2: get_atomic_kernels_gaussian signals an error (any exception is taken
\* for the InvalidInput of the claim), invokes no routine and returns nothing
\* whenever two molecules of the two batches differ in descriptor width.
C2_WidthMismatchRejected ==
    (IsGaussianAtomic /\ WidthMismatch) => Rejected

NonPositiveSigma ==
    IF IsDense THEN args.sigma <= 0
    ELSE \E k \in 1..Len(args.sigmas) : args.sigmas[k] <= 0

\* C3: every public kernel operation rejects a non-positive bandwidth: a call
\* whose sigma, or one of whose sigmas, is <= 0 signals an error (any
\* exception is taken for InvalidInput) and returns no result.
C3_NonPositiveSigmaRejected ==
    (op # "none" /\ NonPositiveSigma) => (err # "none" /\ ~returned)

\* number of descriptor vectors of a dense collection: len(A)
NumVectors(A) == A.shape[1]

\* A holds at least one descriptor vector, of length A.shape[2]
HasVectors(A) == Len(A.shape) = 2 /\ A.shape[1] >= 1

\* C4: laplacian_kernel and gaussian_kernel signal an error (any exception is
\* taken for InvalidInput) and return no matrix whenever the descriptor
\* vectors of A and those of B differ in length.
C4_DimensionMismatchRejected ==
    (IsDense /\ HasVectors(args.A) /\ HasVectors(args.B)
             /\ args.A.shape[2] # args.B.shape[2]) => (err # "none" /\ ~returned)

\* A and B agree in vector length, or one of them holds no vector at all
SameDimension(A, B) ==
    \/ NumVectors(A) = 0
    \/ NumVectors(B) = 0
    \/ A.shape[2] = B.shape[2]

\* C5: for collections A and B of equal vector length, laplacian_kernel and
\* gaussian_kernel return a matrix of shape (len(A), len(B)); when A or B
\* holds no vectors the call returns a 0-row or 0-column matrix and raises
\* no error.
C5_KernelShapeIsLenALenB ==
    (IsDense /\ SameDimension(args.A, args.B)) =>
        /\ err = "none"
        /\ returned
        /\ result.shape = <<NumVectors(args.A), NumVectors(args.B)>>

ZeroAtomMolecule == \E i \in 1..Len(AllMols) : AllMols[i].natoms = 0

\* C6: in get_atomic_kernels_gaussian a molecule with atom count 0 does not
\* make the padding fail: with non-empty batches of one descriptor width, the
\* loops complete, the molecule's slice is entirely zero, the slices of the
\* other molecules hold their descriptors, and the batched routine is invoked.
\* A call with such a molecule fails only for an empty batch or a width
\* mismatch.
C6_ZeroAtomMoleculePads ==
    (IsGaussianAtomic /\ ZeroAtomMolecule) =>
        /\ (err # "none") => (EmptyBatch \/ WidthMismatch)
        /\ (~EmptyBatch /\ ~WidthMismatch) =>
              /\ Completed
              /\ stage = "return"
              /\ BufferHolds(padded1, args.mols1)
              /\ BufferHolds(padded2, args.mols2)
              /\ \A m \in 1..Len(args.mols1) : \A a \in 1..padded1.shape[2],
                    c \in 1..padded1.shape[3] :
                    args.mols1[m].natoms = 0 => padded1.data[<<m, a, c>>] = 0
              /\ \A m \in 1..Len(args.mols2) : \A a \in 1..padded2.shape[2],
                    c \in 1..padded2.shape[3] :
                    args.mols2[m].natoms = 0 => padded2.data[<<m, a, c>>] = 0

\* a call in which one batch mixes a zero-atom molecule with another molecule
\* and every molecule of the other batch has no atoms, and which returned
C6_Witness ==
    /\ IsGaussianAtomic
    /\ returned
    /\ Len(args.mols1) = 2
    /\ args.mols1[1].natoms = 0
    /\ args.mols1[2].natoms = 1
    /\ padded1.data[<<2, 1, 1>>] = args.mols1[2].local_coulomb_matrix.data[<<1, 1>>]
    /\ padded1.data[<<1, 1, 1>>] = 0
    /\ Len(args.mols2) = 2
    /\ \A m \in 1..2 : args.mols2[m].natoms = 0
    /\ padded2.shape = <<2, 0, Width(args.mols1[1])>>

\* the atom counts and the batch sizes of the caller's two batches
CallerCounts1 ==
    IF IsLaplacianAtomic THEN args.N1
    ELSE [i \in 1..Len(args.mols1) |-> args.mols1[i].natoms]

CallerCounts2 ==
    IF IsLaplacianAtomic THEN args.N2
    ELSE [i \in 1..Len(args.mols2) |-> args.mols2[i].natoms]

\* C7: a successful get_atomic_kernels_laplacian or _gaussian call invokes
\* the batched routine exactly once, with the caller's sigmas in the caller's
\* order, a sigma count of len(sigmas), atom-count arrays holding the atom
\* count of molecule i at position i, and molecule counts equal to the batch
\* sizes; the caller receives that invocation's result unchanged.
C7_RoutineInvokedOnceWithCallersArguments ==
    ((IsLaplacianAtomic \/ IsGaussianAtomic) /\ err = "none") =>
        /\ Len(calls) = 1
        /\ calls[1].args.routine =
              (IF IsLaplacianAtomic THEN "fget_vector_kernels_laplacian"
               ELSE "fget_vector_kernels_gaussian")
        /\ calls[1].args.sigmas = args.sigmas
        /\ calls[1].args.nsigmas = Len(args.sigmas)
        /\ calls[1].args.n1 = CallerCounts1
        /\ calls[1].args.n2 = CallerCounts2
        /\ calls[1].args.nm1 = Len(CallerCounts1)
        /\ calls[1].args.nm2 = Len(CallerCounts2)
        /\ returned
        /\ result = calls[1].ret

\* a gaussian call that returned, with two different sigmas
C7_Witness ==
    /\ IsGaussianAtomic
    /\ returned
    /\ args.sigmas = <<2, 1>>
    /\ calls[1].args.sigmas = <<2, 1>>
    /\ calls[1].args.n1 = <<1>>
    /\ calls[1].args.n2 = <<0>>

\* r is p with the descriptor-component axis outermost
Reordered(r, p) ==
    /\ r.shape = <<p.shape[3], p.shape[2], p.shape[1]>>
    /\ \A m \in 1..p.shape[1], a \in 1..p.shape[2], c \in 1..p.shape[3] :
          r.data[<<c, a, m>>] = p.data[<<m, a, c>>]
    /\ Swapaxes02(r) = p

\* C8: the reordering of get_atomic_kernels_gaussian puts the component axis
\* outermost and changes no data: the reordered buffer has shape (cmat_size,
\* max atom count, molecule count), reordered[c][a][m] = padded[m][a][c], and
\* reordering twice gives the padded buffer back.
C8_ReorderingIsTransposition ==
    (IsGaussianAtomic /\ stage = "return") =>
        /\ Reordered(calls[1].args.x1, padded1)
        /\ Reordered(calls[1].args.x2, padded2)
        /\ calls[1].args.x1.shape =
              <<Width(args.mols1[1]), Amax(CallerCounts1), Len(args.mols1)>>
        /\ calls[1].args.x2.shape =
              <<Width(args.mols1[1]), Amax(CallerCounts2), Len(args.mols2)>>

\* a returned call whose first padded buffer has two molecules of one atom
\* and one component: its reordering moves the second molecule's descriptor
C8_Witness ==
    /\ IsGaussianAtomic
    /\ stage = "return"
    /\ padded1.shape = <<2, 1, 1>>
    /\ calls[1].args.x1.shape = <<1, 1, 2>>
    /\ calls[1].args.x1.data[<<1, 1, 2>>] = padded1.data[<<2, 1, 1>>]
    /\ padded1.data[<<2, 1, 1>>] # 0

\* C9: get_atomic_kernels_laplacian pads and reorders nothing: every call
\* reaches the batched routine with x1 and x2 exactly as supplied, whatever
\* the unused slots hold and whatever N1/N2 are against the slot capacity.
C9_LaplacianPassesBuffersThrough ==
    IsLaplacianAtomic =>
        /\ Completed
        /\ calls[1].args.x1 = args.x1
        /\ calls[1].args.x2 = args.x2
        /\ padded1 = NoArray
        /\ padded2 = NoArray

\* a call whose x1 holds a non-zero entry in a slot beyond its molecule's
\* atom count and whose N2 exceeds the capacity of x2
C9_Witness ==
    /\ IsLaplacianAtomic
    /\ returned
    /\ args.N1 = <<0>>
    /\ args.x1.shape = <<1, 1, 1>>
    /\ calls[1].args.x1.data[<<1, 1, 1>>] = 9
    /\ args.N2 = <<1>>
    /\ args.x2.shape[2] = 0

\* C10: get_atomic_kernels_gaussian reaches the batched routine only with two
\* non-empty batches: with an empty batch the call fails while computing the
\* maximum atom count or the descriptor width, before a padded buffer is
\* built, invokes nothing and returns nothing.
C10_EmptyBatchFailsEarly ==
    IsGaussianAtomic =>
        /\ (calls # <<>> \/ returned) => ~EmptyBatch
        /\ EmptyBatch =>
              /\ Rejected
              /\ stage \in {"amax", "cmat_size"}
              /\ padded1 = NoArray
              /\ padded2 = NoArray

\* a call with molecules in the first batch and none in the second
C10_Witness ==
    /\ IsGaussianAtomic
    /\ Len(args.mols1) = 2
    /\ Len(args.mols2) = 0
    /\ err = "ValueError"
    /\ stage = "amax"
    /\ ~returned

====
